---- MODULE Spec2Model ----
(***************************************************************************)
(* A model of the diagram editor of src/graph_editor.py: the GraphEditor   *)
(* registries (blocks, clusters, connections), the GraphBlock and          *)
(* GraphCluster scene items with their parent/child coordinate nesting,    *)
(* the connection drawing state machine and the JSON document codec.       *)
(*                                                                         *)
(* Python objects are named by handles (object identity); a handle whose   *)
(* object nothing refers to any more is free and is handed out again.      *)
(* Lengths are counted in half scene units (U(n) is n scene units), so     *)
(* that w/2 and the half pen width of a scene item are whole numbers.      *)
(* Non-ASCII string literals of the source are transliterated.             *)
(***************************************************************************)
EXTENDS Integers, Sequences, FiniteSets, TLC

---------------------------------------------------------------------------
(* Bounds of the model.                                                    *)

\* GraphBlock objects alive at once.
MaxBlockObjs == 3
\* GraphCluster objects alive at once.
MaxClusterObjs == 2
\* addBlock is explored while block_id_counter is at most this.
MaxBlockId == 3
\* groupSelectedBlocks is explored while cluster_id_counter is at most this.
MaxClusterId == 2
\* endConnection commits while fewer connections than this are committed.
MaxConnections == 3
\* Blocks in the selection handed to groupSelectedBlocks.
MaxSelected == 2
\* Items in the selection handed to deleteSelected.
MaxDeleted == 1
\* An item is dragged at most this many steps of MoveStep to the right.
MaxMoves == 1
\* Handler calls in one run of the editor, for each specification below.
MaxSteps == 4
MaxClusterSteps == 5
MaxConnectionSteps == 5
MaxDocumentSteps == 6
MaxLockSteps == 5
MaxSelectionSteps == 5
MaxLoadSteps == 4
MaxEditSteps == 4

---------------------------------------------------------------------------
(* Values.                                                                 *)

None == 0

U(n) == 2 * n

Orientations == {"top", "bottom", "left", "right"}

\* The pointer positions and deltas the model draws its inputs from.
StartPositions == {<<U(100), U(100)>>, <<U(400), U(100)>>}
MoveStep == <<U(50), 0>>

BlockObjs == 1 .. (MaxBlockObjs + 2)
ClusterObjs == 1 .. MaxClusterObjs

Range(f) == {f[i] : i \in DOMAIN f}

Min(S) == CHOOSE m \in S : \A n \in S : m <= n

Max(S) == CHOOSE m \in S : \A n \in S : m >= n

\* All sequences of distinct elements of S, of length 0 .. n.
RECURSIVE Arrangements(_, _)
Arrangements(S, n) ==
    IF n = 0 THEN {<<>>}
    ELSE LET shorter == Arrangements(S, n - 1)
         IN  shorter \cup
             {Append(p[1], p[2]) :
                p \in {r \in shorter \X S : Len(r[1]) = n - 1 /\ r[2] \notin Range(r[1])}}

---------------------------------------------------------------------------
(* Geometry: QPointF and QRectF as the source uses them.                   *)

PointAdd(p, q) == <<p[1] + q[1], p[2] + q[2]>>

Rect(x, y, w, h) == [x |-> x, y |-> y, w |-> w, h |-> h]

\* QRectF(): the null rectangle.
NullRect == Rect(0, 0, 0, 0)

RectIsNull(r) == r.w = 0 /\ r.h = 0

RectLeft(r) == IF r.w < 0 THEN r.x + r.w ELSE r.x
RectRight(r) == IF r.w < 0 THEN r.x ELSE r.x + r.w
RectTop(r) == IF r.h < 0 THEN r.y + r.h ELSE r.y
RectBottom(r) == IF r.h < 0 THEN r.y ELSE r.y + r.h

\* QRectF.united: the bounding rectangle of both; a null operand is dropped.
RectUnited(a, b) ==
    IF RectIsNull(a) THEN b
    ELSE IF RectIsNull(b) THEN a
    ELSE LET l == Min({RectLeft(a), RectLeft(b)})
             r == Max({RectRight(a), RectRight(b)})
             t == Min({RectTop(a), RectTop(b)})
             d == Max({RectBottom(a), RectBottom(b)})
         IN  Rect(l, t, r - l, d - t)

\* QRectF.adjust(dx1, dy1, dx2, dy2).
RectAdjusted(r, dx1, dy1, dx2, dy2) ==
    Rect(r.x + dx1, r.y + dy1, r.w + dx2 - dx1, r.h + dy2 - dy1)

RectTranslated(r, p) == Rect(r.x + p[1], r.y + p[2], r.w, r.h)

\* QRectF.contains(QPointF): edges included, a rectangle of no width or
\* height contains nothing.
RectContains(r, p) ==
    /\ RectLeft(r) # RectRight(r)
    /\ RectTop(r) # RectBottom(r)
    /\ RectLeft(r) <= p[1] /\ p[1] <= RectRight(r)
    /\ RectTop(r) <= p[2] /\ p[2] <= RectBottom(r)

\* Half the width of the default pen of a QGraphicsRectItem (width 1), by
\* which boundingRect() exceeds rect() on every side.
PenHalf == U(1) \div 2

ItemBoundingRect(r) == RectAdjusted(r, -PenHalf, -PenHalf, PenHalf, PenHalf)

---------------------------------------------------------------------------
(* The dict registries: insertion-ordered sequences of (id, obj) entries.  *)

DictKeys(d) == {d[i].id : i \in DOMAIN d}

DictHas(d, k) == k \in DictKeys(d)

DictGet(d, k) == d[CHOOSE i \in DOMAIN d : d[i].id = k].obj

DictValues(d) == [i \in DOMAIN d |-> d[i].obj]

\* d[k] = v: a present key keeps its place and takes the new value.
DictSet(d, k, v) ==
    IF DictHas(d, k)
    THEN [i \in DOMAIN d |-> IF d[i].id = k THEN [id |-> k, obj |-> v] ELSE d[i]]
    ELSE Append(d, [id |-> k, obj |-> v])

\* del d[k]
DictDel(d, k) == SelectSeq(d, LAMBDA e : e.id # k)

---------------------------------------------------------------------------
(* Scene items.  state: "free" (no such object), "scene" (in the scene),   *)
(* "removed" (taken out of the scene by removeItem, the object lives on)   *)
(* or "destroyed" (the C++ item was deleted by scene.clear(); any call on  *)
(* the wrapper raises RuntimeError).                                       *)

FreeBlock ==
    [state |-> "free", block_id |-> None, title |-> "", content |-> "",
     color |-> "", pos |-> <<0, 0>>, width |-> 0, height |-> 0,
     locked |-> FALSE, parent |-> None]

\* GraphBlock.__init__, before the caller sets block_id and adds the item.
GraphBlock(width, height, title) ==
    [state |-> "removed", block_id |-> None, title |-> title, content |-> "",
     color |-> "#ffffff", pos |-> <<0, 0>>, width |-> width, height |-> height,
     locked |-> FALSE, parent |-> None]

FreeCluster ==
    [state |-> "free", title |-> "", color |-> "", pos |-> <<0, 0>>,
     rect |-> NullRect, blocks |-> <<>>, locked |-> FALSE]

\* The segment of a line item that does not exist.
NoLine == <<<<0, 0>>, <<0, 0>>>>

\* GraphConnection: the block and orientation of its start anchor and of
\* its end anchor (None while the connection is being drawn).
\* line is the segment setLine stored in the line item (two scene points).
\* line_item is "None" before create_line_item, then the state of the line
\* item ("scene", or "destroyed" once scene.clear() has deleted it).
GraphConnection(start_block, start_orientation) ==
    [start_block |-> start_block, start_anchor |-> start_orientation,
     end_block |-> None, end_anchor |-> "None", line_item |-> "None",
     line |-> NoLine]

\* current_connection = None
NoConnection ==
    [start_block |-> None, start_anchor |-> "None",
     end_block |-> None, end_anchor |-> "None", line_item |-> "None",
     line |-> NoLine]

\* conn.end_anchor is truthy
HasEnd(conn) == conn.end_block # None

\* QGraphicsItem.scenePos of a block: its pos in its parent's coordinates,
\* a cluster being a top-level item.
ScenePos(s, h) ==
    LET b == s.graphBlock[h]
    IN  IF b.parent = None THEN b.pos
        ELSE PointAdd(b.pos, s.graphCluster[b.parent].pos)

\* GraphBlock.sceneBoundingRect()
BlockSceneBoundingRect(s, h) ==
    LET b == s.graphBlock[h]
    IN  RectTranslated(ItemBoundingRect(Rect(0, 0, b.width, b.height)), ScenePos(s, h))

\* AnchorHandle.HANDLE_SIZE
HANDLE_SIZE == U(8)

\* GraphBlock.updateAnchors: the pos of the anchor of an orientation in the
\* coordinates of a block with a rect of the given width and height.
AnchorPos(width, height, orientation) ==
    CASE orientation = "top" ->
             <<width \div 2 - HANDLE_SIZE \div 2, -(HANDLE_SIZE \div 2)>>
      [] orientation = "bottom" ->
             <<width \div 2 - HANDLE_SIZE \div 2, height - HANDLE_SIZE \div 2>>
      [] orientation = "left" ->
             <<-(HANDLE_SIZE \div 2), height \div 2 - HANDLE_SIZE \div 2>>
      [] orientation = "right" ->
             <<width - HANDLE_SIZE \div 2, height \div 2 - HANDLE_SIZE \div 2>>

\* anchor.sceneBoundingRect().center() of the anchor of block h.
AnchorSceneCenter(s, h, orientation) ==
    LET b == s.graphBlock[h]
    IN  PointAdd(PointAdd(ScenePos(s, h), AnchorPos(b.width, b.height, orientation)),
                 <<HANDLE_SIZE \div 2, HANDLE_SIZE \div 2>>)

\* GraphCluster.sceneBoundingRect()
ClusterSceneBoundingRect(s, c) ==
    RectTranslated(ItemBoundingRect(s.graphCluster[c].rect), s.graphCluster[c].pos)

\* GraphCluster.computeBoundingRect(blocks)
RECURSIVE UniteFrom(_, _, _, _)
UniteFrom(s, blks, i, rect) ==
    IF i > Len(blks) THEN rect
    ELSE UniteFrom(s, blks, i + 1, RectUnited(rect, BlockSceneBoundingRect(s, blks[i])))

computeBoundingRect(s, blks) ==
    IF blks = <<>> THEN NullRect
    ELSE RectAdjusted(UniteFrom(s, blks, 2, BlockSceneBoundingRect(s, blks[1])),
                      -U(10), -U(10), U(10), U(10))

\* GraphCluster.__init__
GraphCluster(s, blks, title) ==
    [state |-> "removed", title |-> title, color |-> "#ffeeaa", pos |-> <<0, 0>>,
     rect |-> computeBoundingRect(s, blks), blocks |-> blks, locked |-> FALSE]

---------------------------------------------------------------------------
(* The editor state as one value s, with the fields of GraphEditor and the *)
(* objects they refer to; every handler below maps a state to a state.     *)

\* GraphEditor.__init__
InitialState ==
    [block_id_counter |-> 1,
     cluster_id_counter |-> 1,
     blocks |-> <<>>,
     clusters |-> <<>>,
     connections |-> <<>>,
     currentBlock |-> None,
     currentCluster |-> None,
     editLocked |-> FALSE,
     current_connection |-> NoConnection,
     graphBlock |-> [h \in BlockObjs |-> FreeBlock],
     graphCluster |-> [c \in ClusterObjs |-> FreeCluster]]

SceneBlocks(s) == {h \in BlockObjs : s.graphBlock[h].state = "scene"}

SceneClusters(s) == {c \in ClusterObjs : s.graphCluster[c].state = "scene"}

ConnectionBlocks(conn) == {conn.start_block, conn.end_block} \ {None}

\* The objects Python still refers to, directly or through one another.
RECURSIVE Referenced(_, _, _)
Referenced(s, B, C) ==
    LET C2 == C \cup ({s.graphBlock[h].parent : h \in B} \ {None})
        B2 == B \cup UNION {Range(s.graphCluster[c].blocks) : c \in C2}
    IN  IF B2 = B /\ C2 = C THEN [blocks |-> B, clusters |-> C]
        ELSE Referenced(s, B2, C2)

LiveObjects(s) ==
    Referenced(s,
        SceneBlocks(s) \cup Range(DictValues(s.blocks))
            \cup UNION {ConnectionBlocks(s.connections[i]) : i \in DOMAIN s.connections}
            \cup ConnectionBlocks(s.current_connection)
            \cup ({s.currentBlock} \ {None}),
        SceneClusters(s) \cup Range(DictValues(s.clusters))
            \cup ({s.currentCluster} \ {None}))

\* Python's reference counting: an object nothing refers to is gone.
Collect(s) ==
    LET live == LiveObjects(s)
    IN  [s EXCEPT
           !.graphBlock = [h \in BlockObjs |->
                             IF h \in live.blocks THEN @[h] ELSE FreeBlock],
           !.graphCluster = [c \in ClusterObjs |->
                             IF c \in live.clusters THEN @[c] ELSE FreeCluster]]

FreeBlockObjs(s) == {h \in BlockObjs : s.graphBlock[h].state = "free"}

FreeClusterObjs(s) == {c \in ClusterObjs : s.graphCluster[c].state = "free"}

\* The handle of the next object constructed.
NewBlockObj(s) == Min(FreeBlockObjs(s))

NewClusterObj(s) == Min(FreeClusterObjs(s))

---------------------------------------------------------------------------
(* Selection for editing.                                                  *)

\* setCurrentBlock leaving currentCluster as it is.
SetCurrentBlockOnly(s, h) ==
    IF ~s.editLocked THEN [s EXCEPT !.currentBlock = h] ELSE s

\* setCurrentBlock without the test of editLocked.
SetCurrentBlockUnlocked(s, h) ==
    [s EXCEPT !.currentBlock = h, !.currentCluster = None]

SetCurrentBlock(s, h) ==
    IF ~s.editLocked
    THEN [s EXCEPT !.currentBlock = h, !.currentCluster = None]
    ELSE s

SetCurrentCluster(s, c) ==
    IF ~s.editLocked
    THEN [s EXCEPT !.currentCluster = c, !.currentBlock = None]
    ELSE s

OnLockToggled(s, locked) == [s EXCEPT !.editLocked = locked]

OnEditDockVisibilityChanged(s, visible) ==
    IF ~visible
    THEN [s EXCEPT !.editLocked = FALSE, !.currentBlock = None, !.currentCluster = None]
    ELSE s

---------------------------------------------------------------------------
(* The line items of connections.                                          *)

\* GraphConnection.create_line_item, in state s: a line from the centre of
\* the start anchor to itself.
create_line_item(s, conn) ==
    LET start_point == AnchorSceneCenter(s, conn.start_block, conn.start_anchor)
    IN  [conn EXCEPT !.line_item = "scene", !.line = <<start_point, start_point>>]

\* GraphConnection.update_line_item raises RuntimeError when the line item
\* (and with it, after scene.clear(), the start anchor) has been deleted.
UpdateLineRaises(conn) == conn.line_item = "destroyed"

\* GraphConnection.update_line_item(), with no current_pos, in state s.
update_line_item(s, conn) ==
    IF conn.line_item = "None" THEN conn
    ELSE LET start_point == AnchorSceneCenter(s, conn.start_block, conn.start_anchor)
             end_point == IF HasEnd(conn)
                          THEN AnchorSceneCenter(s, conn.end_block, conn.end_anchor)
                          ELSE start_point
         IN  [conn EXCEPT !.line = <<start_point, end_point>>]

\* GraphEditor.updateConnectionsForBlock
updateConnectionsForBlock(s, block) ==
    [s EXCEPT
       !.connections = [i \in DOMAIN @ |->
                          IF @[i].start_block = block
                             \/ (HasEnd(@[i]) /\ @[i].end_block = block)
                          THEN update_line_item(s, @[i]) ELSE @[i]],
       !.current_connection =
           IF @ # NoConnection /\ @.start_block = block /\ ~UpdateLineRaises(@)
           THEN update_line_item(s, @) ELSE @]

\* GraphEditor.updateConnectionsForCluster
RECURSIVE UpdateFrom(_, _, _)
UpdateFrom(s, blks, i) ==
    IF i > Len(blks) THEN s
    ELSE UpdateFrom(updateConnectionsForBlock(s, blks[i]), blks, i + 1)

updateConnectionsForCluster(s, cluster) ==
    UpdateFrom(s, s.graphCluster[cluster].blocks, 1)

---------------------------------------------------------------------------
(* Item movement and locking.                                              *)

\* itemChange without the test of the locked flag.
BlockSetPosAlways(s, h, p) ==
    IF p = s.graphBlock[h].pos THEN s
    ELSE updateConnectionsForBlock([s EXCEPT !.graphBlock[h].pos = p], h)

\* GraphBlock.itemChange(ItemPositionChange): setPos on a locked block
\* keeps pos().
BlockSetPos(s, h, p) ==
    IF s.graphBlock[h].locked \/ p = s.graphBlock[h].pos THEN s
    ELSE updateConnectionsForBlock([s EXCEPT !.graphBlock[h].pos = p], h)

\* GraphCluster.itemChange(ItemPositionChange)
ClusterSetPos(s, c, p) ==
    IF s.graphCluster[c].locked \/ p = s.graphCluster[c].pos THEN s
    ELSE updateConnectionsForCluster([s EXCEPT !.graphCluster[c].pos = p], c)

FixCurrent(s) ==
    IF s.currentBlock # None
    THEN [s EXCEPT !.graphBlock[s.currentBlock].locked = TRUE]
    ELSE IF s.currentCluster # None
    THEN [s EXCEPT !.graphCluster[s.currentCluster].locked = TRUE]
    ELSE s

UnfixCurrent(s) ==
    IF s.currentBlock # None
    THEN [s EXCEPT !.graphBlock[s.currentBlock].locked = FALSE]
    ELSE IF s.currentCluster # None
    THEN [s EXCEPT !.graphCluster[s.currentCluster].locked = FALSE]
    ELSE s

---------------------------------------------------------------------------
(* Blocks.                                                                 *)

\* addBlock taking max(existing) + 1 for the id, not the counter.
AddBlockAfterLargest(s, p) ==
    LET h == NewBlockObj(s)
        id == IF s.blocks = <<>> THEN 1 ELSE Max(DictKeys(s.blocks)) + 1
        block == [GraphBlock(U(150), U(80), "Novyi blok") EXCEPT
                    !.block_id = id, !.pos = p, !.state = "scene"]
    IN  SetCurrentBlock([s EXCEPT !.graphBlock[h] = block,
                                  !.blocks = DictSet(@, id, h)], h)

\* GraphEditor.addBlock; p is the position random.randint picks.
AddBlock(s, p) ==
    LET h == NewBlockObj(s)
        block == [GraphBlock(U(150), U(80), "Novyi blok") EXCEPT
                    !.block_id = s.block_id_counter]
        s1 == [s EXCEPT !.graphBlock[h] = block,
                        !.blocks = DictSet(@, s.block_id_counter, h),
                        !.block_id_counter = @ + 1]
        s2 == BlockSetPos(s1, h, p)
        s3 == [s2 EXCEPT !.graphBlock[h].state = "scene"]
    IN  SetCurrentBlock(s3, h)

\* A selected scene item: [kind |-> "block" or "cluster", obj |-> handle].
BlockItem(h) == [kind |-> "block", obj |-> h]

ClusterItem(c) == [kind |-> "cluster", obj |-> c]

\* Touches without the end anchor test.
TouchesStartOnly(conn, h) == conn.start_block = h

\* conn touches block h (deleteSelected's conns_to_remove test).
Touches(conn, h) ==
    conn.start_block = h \/ (HasEnd(conn) /\ conn.end_block = h)

\* QGraphicsScene.removeItem of a block: a child of an item that is in the
\* scene is unparented, keeping pos().
RemoveBlockItem(s, h) ==
    LET p == s.graphBlock[h].parent
    IN  [s EXCEPT !.graphBlock[h].state = "removed",
                  !.graphBlock[h].parent =
                      IF p # None /\ s.graphCluster[p].state = "scene" THEN None ELSE p]

\* deleteSelected, the GraphBlock branch of the loop body.
DeleteBlock(s, h) ==
    LET id == s.graphBlock[h].block_id
    IN  IF DictHas(s.blocks, id)
        THEN LET s1 == [s EXCEPT !.connections =
                                    SelectSeq(@, LAMBDA conn : ~Touches(conn, h))]
                 s2 == IF s1.graphBlock[h].state = "scene"
                       THEN RemoveBlockItem(s1, h) ELSE s1
             IN  [s2 EXCEPT !.blocks = DictDel(@, id)]
        ELSE s

\* blk.setParentItem(None) for every blk of the list.
Unparent(s, blks) ==
    [s EXCEPT !.graphBlock = [h \in BlockObjs |->
                                IF h \in Range(blks) THEN [@[h] EXCEPT !.parent = None]
                                ELSE @[h]]]

\* The first key of the dict whose value is obj is deleted.
DictDelValue(d, obj) ==
    IF \E i \in DOMAIN d : d[i].obj = obj
    THEN LET k == Min({i \in DOMAIN d : d[i].obj = obj})
         IN  [i \in 1 .. (Len(d) - 1) |-> IF i < k THEN d[i] ELSE d[i + 1]]
    ELSE d

\* QGraphicsScene.removeItem of a cluster: its child items leave the scene
\* with it.
RemoveClusterItem(s, c) ==
    [s EXCEPT !.graphCluster[c].state = "removed",
              !.graphBlock = [h \in BlockObjs |->
                                IF @[h].parent = c /\ @[h].state = "scene"
                                THEN [@[h] EXCEPT !.state = "removed"]
                                ELSE @[h]]]

\* deleteSelected, the GraphCluster branch of the loop body.
DeleteCluster(s, c) ==
    LET s1 == Unparent(s, s.graphCluster[c].blocks)
        s2 == [s1 EXCEPT !.clusters = DictDelValue(@, c)]
    IN  IF s2.graphCluster[c].state = "scene" THEN RemoveClusterItem(s2, c) ELSE s2

\* GraphEditor.deleteSelected; items is scene.selectedItems().
RECURSIVE DeleteFrom(_, _, _)
DeleteFrom(s, items, i) ==
    IF i > Len(items) THEN s
    ELSE DeleteFrom(IF items[i].kind = "block"
                    THEN DeleteBlock(s, items[i].obj)
                    ELSE DeleteCluster(s, items[i].obj),
                    items, i + 1)

DeleteSelected(s, items) == DeleteFrom(s, items, 1)

---------------------------------------------------------------------------
(* Clusters.                                                               *)

\* groupSelectedBlocks without the calls of setParentItem.
ReparentNothing(s, blks, c) == s

\* blk.setParentItem(cluster) for every blk of the list: pos() is kept and
\* is read in the cluster's coordinates from now on.
Reparent(s, blks, c) ==
    [s EXCEPT !.graphBlock = [h \in BlockObjs |->
                                IF h \in Range(blks) THEN [@[h] EXCEPT !.parent = c]
                                ELSE @[h]]]

\* groupSelectedBlocks turning away an empty selection only.
GroupSelectedBlocksOfOne(s, selected_blocks) ==
    IF Len(selected_blocks) < 1 THEN s
    ELSE LET c == NewClusterObj(s)
             cluster == GraphCluster(s, selected_blocks,
                                     "Klaster " \o ToString(s.cluster_id_counter))
             s1 == [s EXCEPT !.graphCluster[c] = cluster,
                             !.clusters = DictSet(@, s.cluster_id_counter, c),
                             !.cluster_id_counter = @ + 1]
             s2 == Reparent(s1, selected_blocks, c)
         IN  [s2 EXCEPT !.graphCluster[c].state = "scene"]

\* GraphEditor.groupSelectedBlocks; selected_blocks are the GraphBlock items
\* of scene.selectedItems().
GroupSelectedBlocks(s, selected_blocks) ==
    IF Len(selected_blocks) < 2 THEN s
    ELSE LET c == NewClusterObj(s)
             cluster == GraphCluster(s, selected_blocks,
                                     "Klaster " \o ToString(s.cluster_id_counter))
             s1 == [s EXCEPT !.graphCluster[c] = cluster,
                             !.clusters = DictSet(@, s.cluster_id_counter, c),
                             !.cluster_id_counter = @ + 1]
             s2 == Reparent(s1, selected_blocks, c)
         IN  [s2 EXCEPT !.graphCluster[c].state = "scene"]

\* GraphEditor.detachClusterBlocks
DetachClusterBlocks(s) ==
    IF s.currentCluster # None
    THEN LET c == s.currentCluster
             s1 == Unparent(s, s.graphCluster[c].blocks)
         IN  [s1 EXCEPT !.graphCluster[c].blocks = <<>>,
                        !.graphCluster[c].rect = NullRect]
    ELSE s

\* attachClusterBlocks, the loop body for one registered block.
AttachBlock(s, c, cluster_rect, h) ==
    IF s.graphBlock[h].parent = None /\ RectContains(cluster_rect, ScenePos(s, h))
    THEN [s EXCEPT !.graphBlock[h].parent = c,
                   !.graphBlock[h].state = s.graphCluster[c].state,
                   !.graphCluster[c].blocks =
                       IF h \in Range(@) THEN @ ELSE Append(@, h)]
    ELSE s

RECURSIVE AttachFrom(_, _, _, _, _)
AttachFrom(s, c, cluster_rect, blks, i) ==
    IF i > Len(blks) THEN s
    ELSE AttachFrom(AttachBlock(s, c, cluster_rect, blks[i]), c, cluster_rect, blks, i + 1)

\* GraphEditor.attachClusterBlocks
AttachClusterBlocks(s) ==
    IF s.currentCluster # None
    THEN AttachFrom(s, s.currentCluster,
                    ClusterSceneBoundingRect(s, s.currentCluster),
                    DictValues(s.blocks), 1)
    ELSE s

---------------------------------------------------------------------------
(* The edit panel.                                                         *)

\* The texts typed into widthEdit and into heightEdit.
WidthTexts == {"200", "0", "abc"}

HeightTexts == {"100", "-50"}

\* float(text): <<value>> in half scene units, or <<>> for ValueError.
ParseFloat(text) ==
    CASE text = "200" -> <<U(200)>>
      [] text = "100" -> <<U(100)>>
      [] text = "0"   -> <<0>>
      [] text = "-50" -> <<0 - U(50)>>
      [] OTHER        -> <<>>

\* GraphBlock.setBlockRect and GraphCluster.setClusterRect with a rect at
\* the origin: setRect, then centerText and updateAnchors, which follow
\* from the new width and height.
setBlockRect(s, h, width, height) ==
    [s EXCEPT !.graphBlock[h].width = width, !.graphBlock[h].height = height]

\* GraphEditor.saveEdit with the given texts in the edit panel.
SaveEdit(s, title, content, widthText, heightText) ==
    LET w == ParseFloat(widthText)
        h == ParseFloat(heightText)
        parsed == w # <<>> /\ h # <<>>
    IN  IF s.currentBlock # None
        THEN LET b == s.graphBlock[s.currentBlock]
                 width == IF parsed THEN w[1] ELSE b.width
                 height == IF parsed THEN h[1] ELSE b.height
                 t == [s EXCEPT !.graphBlock[s.currentBlock].title = title,
                                !.graphBlock[s.currentBlock].content = content]
             IN  setBlockRect(t, s.currentBlock, width, height)
        ELSE IF s.currentCluster # None
        THEN [s EXCEPT !.graphCluster[s.currentCluster].title = title]
        ELSE s

---------------------------------------------------------------------------
(* Connections.                                                            *)

\* startConnection without the early return on a pending connection.
StartConnectionAnew(s, block, orientation) ==
    [s EXCEPT !.current_connection =
                  create_line_item(s, GraphConnection(block, orientation))]

\* GraphEditor.startConnection(anchor), anchor = block.anchors[orientation]
StartConnection(s, block, orientation) ==
    IF s.current_connection # NoConnection THEN s
    ELSE [s EXCEPT !.current_connection =
                       create_line_item(s, GraphConnection(block, orientation))]

\* GraphEditor.cancelConnection; scene.removeItem raises on a deleted line
\* item, before current_connection is reset.
CancelConnection(s) ==
    IF s.current_connection # NoConnection
       /\ s.current_connection.line_item = "destroyed"
    THEN s
    ELSE [s EXCEPT !.current_connection = NoConnection]

\* endConnection without the test for the start anchor's block.
EndConnectionUnchecked(s, block, orientation) ==
    IF s.current_connection = NoConnection THEN s
    ELSE [s EXCEPT !.connections =
                       Append(@, update_line_item(s,
                                     [s.current_connection EXCEPT
                                        !.end_block = block,
                                        !.end_anchor = orientation])),
                   !.current_connection = NoConnection]

\* GraphEditor.endConnection(anchor)
EndConnection(s, block, orientation) ==
    IF s.current_connection = NoConnection THEN s
    ELSE IF block # s.current_connection.start_block
    THEN LET conn == [s.current_connection EXCEPT !.end_block = block,
                                                  !.end_anchor = orientation]
         IN  IF UpdateLineRaises(conn)
             THEN [s EXCEPT !.current_connection = conn]
             ELSE [s EXCEPT !.connections = Append(@, update_line_item(s, conn)),
                            !.current_connection = NoConnection]
    ELSE CancelConnection(s)

\* ClickableLine.mousePressEvent on the line of the i-th connection.
RemoveConnection(s, i) ==
    [s EXCEPT !.connections =
                [j \in 1 .. (Len(@) - 1) |-> IF j < i THEN @[j] ELSE @[j + 1]]]

---------------------------------------------------------------------------
(* Documents.                                                              *)

\* scene.clear(): every item of the scene is deleted; the Python attributes
\* of a wrapper that is still referred to survive, its item state does not.
SceneClear(s) ==
    [s EXCEPT
       !.graphBlock = [h \in BlockObjs |->
                         IF @[h].state = "scene"
                         THEN [@[h] EXCEPT !.state = "destroyed", !.pos = <<0, 0>>,
                                           !.width = 0, !.height = 0, !.parent = None]
                         ELSE @[h]],
       !.graphCluster = [c \in ClusterObjs |->
                         IF @[c].state = "scene"
                         THEN [@[c] EXCEPT !.state = "destroyed", !.pos = <<0, 0>>,
                                           !.rect = NullRect]
                         ELSE @[c]],
       !.current_connection =
           IF @ # NoConnection /\ @.line_item = "scene"
           THEN [@ EXCEPT !.line_item = "destroyed", !.line = NoLine] ELSE @]

\* GraphEditor.newFile
NewFile(s) ==
    [SceneClear(s) EXCEPT !.blocks = <<>>,
                          !.clusters = <<>>,
                          !.connections = <<>>,
                          !.block_id_counter = 1,
                          !.cluster_id_counter = 1,
                          !.currentBlock = None,
                          !.currentCluster = None]

\* dict.get(key, default)
Get(entry, key, default) == IF key \in DOMAIN entry THEN entry[key] ELSE default

\* The loop body over data["blocks"] raises KeyError on an entry without
\* one of the keys it subscripts, before the block is registered or added.
LoadBlockRaises(block_data) ==
    ~({"width", "height", "title", "id", "x", "y"} \subseteq DOMAIN block_data)

\* The loop body without the update of block_id_counter.
LoadBlockKeepCounter(s, block_data) ==
    LET h == NewBlockObj(s)
        block == [GraphBlock(block_data.width, block_data.height, block_data.title)
                  EXCEPT !.block_id = block_data.id,
                         !.content = Get(block_data, "content", ""),
                         !.color = Get(block_data, "color", "#ffffff"),
                         !.pos = <<block_data.x, block_data.y>>,
                         !.locked = Get(block_data, "locked", FALSE),
                         !.state = "scene"]
    IN  [s EXCEPT !.graphBlock[h] = block,
                  !.blocks = DictSet(@, block_data.id, h)]

\* openFile, the body of the loop over data["blocks"].
LoadBlock(s, block_data) ==
    LET h == NewBlockObj(s)
        block == [GraphBlock(block_data.width, block_data.height, block_data.title)
                  EXCEPT !.block_id = block_data.id,
                         !.content = Get(block_data, "content", ""),
                         !.color = Get(block_data, "color", "#ffffff"),
                         !.pos = <<block_data.x, block_data.y>>,
                         !.locked = Get(block_data, "locked", FALSE),
                         !.state = "scene"]
    IN  [s EXCEPT !.graphBlock[h] = block,
                  !.blocks = DictSet(@, block_data.id, h),
                  !.block_id_counter =
                      IF block_data.id >= @ THEN block_data.id + 1 ELSE @]

\* The loop stops at the first entry that raises.
RECURSIVE LoadBlocks(_, _, _)
LoadBlocks(s, list, i) ==
    IF i > Len(list) \/ LoadBlockRaises(list[i]) THEN s
    ELSE LoadBlocks(LoadBlock(s, list[i]), list, i + 1)

\* [self.blocks[bid] for bid in block_ids if bid in self.blocks]
RECURSIVE ResolveBlocks(_, _, _)
ResolveBlocks(s, block_ids, i) ==
    IF i > Len(block_ids) THEN <<>>
    ELSE (IF DictHas(s.blocks, block_ids[i])
          THEN <<DictGet(s.blocks, block_ids[i])>> ELSE <<>>)
         \o ResolveBlocks(s, block_ids, i + 1)

\* The loop body over data["clusters"] raises KeyError on an entry with
\* resolved blocks and no title or no id, before the cluster is registered.
LoadClusterRaises(s, cluster_data) ==
    /\ ResolveBlocks(s, Get(cluster_data, "block_ids", <<>>), 1) # <<>>
    /\ ~({"title", "id"} \subseteq DOMAIN cluster_data)

\* openFile, the body of the loop over data["clusters"].
LoadCluster(s, cluster_data) ==
    LET cluster_blocks == ResolveBlocks(s, Get(cluster_data, "block_ids", <<>>), 1)
    IN  IF cluster_blocks # <<>>
        THEN LET c == NewClusterObj(s)
                 cluster == [GraphCluster(s, cluster_blocks, cluster_data.title)
                             EXCEPT !.color = Get(cluster_data, "color", "#ffeeaa"),
                                    !.locked = Get(cluster_data, "locked", FALSE),
                                    !.state = "scene"]
             IN  [s EXCEPT !.graphCluster[c] = cluster,
                           !.clusters = DictSet(@, cluster_data.id, c)]
        ELSE s

RECURSIVE LoadClusters(_, _, _)
LoadClusters(s, list, i) ==
    IF i > Len(list) \/ LoadClusterRaises(s, list[i]) THEN s
    ELSE LoadClusters(LoadCluster(s, list[i]), list, i + 1)

\* start_block.anchors.get(orientation) is None for an unknown orientation.
AnchorExists(orientation) == orientation \in Orientations

\* openFile, the body of the loop over data["connections"]: KeyError on an
\* entry without one of its four keys; AttributeError in create_line_item
\* on a start anchor that is None.
LoadConnectionRaises(s, conn_data) ==
    \/ ~({"start_block_id", "end_block_id", "start_anchor", "end_anchor"}
            \subseteq DOMAIN conn_data)
    \/ /\ DictHas(s.blocks, conn_data.start_block_id)
       /\ DictHas(s.blocks, conn_data.end_block_id)
       /\ ~AnchorExists(conn_data.start_anchor)

LoadConnection(s, conn_data) ==
    IF DictHas(s.blocks, conn_data.start_block_id)
       /\ DictHas(s.blocks, conn_data.end_block_id)
    THEN LET start_block == DictGet(s.blocks, conn_data.start_block_id)
             end_block == DictGet(s.blocks, conn_data.end_block_id)
             conn == GraphConnection(start_block, conn_data.start_anchor)
             ended == IF AnchorExists(conn_data.end_anchor)
                      THEN [conn EXCEPT !.end_block = end_block,
                                        !.end_anchor = conn_data.end_anchor]
                      ELSE conn
         IN  [s EXCEPT !.connections =
                           Append(@, update_line_item(s, create_line_item(s, ended)))]
    ELSE s

\* The loop stops at the first entry that raises.
RECURSIVE LoadConnections(_, _, _)
LoadConnections(s, list, i) ==
    IF i > Len(list) \/ LoadConnectionRaises(s, list[i]) THEN s
    ELSE LoadConnections(LoadConnection(s, list[i]), list, i + 1)

\* A loop of openFile over list, started in state s, raises.
RECURSIVE BlocksRaise(_, _)
BlocksRaise(list, i) ==
    i <= Len(list) /\ (LoadBlockRaises(list[i]) \/ BlocksRaise(list, i + 1))

RECURSIVE ClustersRaise(_, _, _)
ClustersRaise(s, list, i) ==
    /\ i <= Len(list)
    /\ \/ LoadClusterRaises(s, list[i])
       \/ ClustersRaise(LoadCluster(s, list[i]), list, i + 1)

RECURSIVE ConnectionsRaise(_, _, _)
ConnectionsRaise(s, list, i) ==
    /\ i <= Len(list)
    /\ \/ LoadConnectionRaises(s, list[i])
       \/ ConnectionsRaise(LoadConnection(s, list[i]), list, i + 1)

\* GraphEditor.openFile with the file dialog returning a file that holds
\* data: the state it leaves, also when one of its loops raises and the
\* rest of the handler does not run.
OpenFile(s, data) ==
    LET s1 == Collect(NewFile(s))
        s2 == LoadBlocks(s1, Get(data, "blocks", <<>>), 1)
        s3 == LoadClusters(s2, Get(data, "clusters", <<>>), 1)
    IN  IF BlocksRaise(Get(data, "blocks", <<>>), 1) THEN s2
        ELSE IF ClustersRaise(s2, Get(data, "clusters", <<>>), 1) THEN s3
        ELSE LoadConnections(s3, Get(data, "connections", <<>>), 1)

\* openFile raises while it loads data.
OpenFileRaises(s, data) ==
    LET s1 == Collect(NewFile(s))
        s2 == LoadBlocks(s1, Get(data, "blocks", <<>>), 1)
        s3 == LoadClusters(s2, Get(data, "clusters", <<>>), 1)
    IN  \/ BlocksRaise(Get(data, "blocks", <<>>), 1)
        \/ ClustersRaise(s2, Get(data, "clusters", <<>>), 1)
        \/ ConnectionsRaise(s3, Get(data, "connections", <<>>), 1)

\* saveFile, one entry of data["blocks"].
BlockData(s, h) ==
    LET block == s.graphBlock[h]
        pos == ScenePos(s, h)
    IN  [id |-> block.block_id, title |-> block.title, content |-> block.content,
         x |-> pos[1], y |-> pos[2], width |-> block.width, height |-> block.height,
         color |-> block.color, locked |-> block.locked]

\* saveFile, one entry of data["clusters"].
ClusterData(s, cid, c) ==
    LET cluster == s.graphCluster[c]
    IN  [id |-> cid, title |-> cluster.title, color |-> cluster.color,
         block_ids |-> [i \in DOMAIN cluster.blocks |->
                          s.graphBlock[cluster.blocks[i]].block_id],
         locked |-> cluster.locked]

\* saveFile, one entry of data["connections"].
ConnectionData(s, conn) ==
    [start_block_id |-> s.graphBlock[conn.start_block].block_id,
     start_anchor |-> conn.start_anchor,
     end_block_id |-> s.graphBlock[conn.end_block].block_id,
     end_anchor |-> conn.end_anchor]

\* GraphEditor.saveFile: the data written to the file.
SaveFile(s) ==
    LET saved == SelectSeq(s.connections, HasEnd)
    IN  [blocks |-> [i \in DOMAIN s.blocks |-> BlockData(s, s.blocks[i].obj)],
         clusters |-> [i \in DOMAIN s.clusters |->
                         ClusterData(s, s.clusters[i].id, s.clusters[i].obj)],
         connections |-> [i \in DOMAIN saved |-> ConnectionData(s, saved[i])]]

---------------------------------------------------------------------------
(* Documents on disk that openFile is given besides the file saveFile      *)
(* wrote.                                                                  *)

BlockEntry(id, x, y) ==
    [id |-> id, title |-> "Novyi blok", content |-> "", x |-> x, y |-> y,
     width |-> U(150), height |-> U(80), color |-> "#ffffff", locked |-> FALSE]

ConnectionEntry(start_id, start_anchor, end_id, end_anchor) ==
    [start_block_id |-> start_id, start_anchor |-> start_anchor,
     end_block_id |-> end_id, end_anchor |-> end_anchor]

\* Three blocks, each connected to the two others.
TriangleDocument ==
    [blocks |-> <<BlockEntry(1, U(100), U(100)), BlockEntry(2, U(400), U(100)),
                  BlockEntry(3, U(100), U(300))>>,
     clusters |-> <<>>,
     connections |-> <<ConnectionEntry(1, "right", 2, "left"),
                       ConnectionEntry(1, "bottom", 3, "top"),
                       ConnectionEntry(2, "bottom", 3, "right")>>]

\* Two blocks grouped into cluster 1, as saveFile writes them.
ClusterDocument ==
    [blocks |-> <<BlockEntry(1, U(100), U(100)), BlockEntry(2, U(400), U(100))>>,
     clusters |-> <<[id |-> 1, title |-> "Klaster 1", color |-> "#ffeeaa",
                     block_ids |-> <<1, 2>>, locked |-> FALSE]>>,
     connections |-> <<>>]

\* A connection from a block to itself.
SelfLoopDocument ==
    [blocks |-> <<BlockEntry(1, U(100), U(100))>>,
     clusters |-> <<>>,
     connections |-> <<ConnectionEntry(1, "right", 1, "left")>>]

Documents == {TriangleDocument, ClusterDocument, SelfLoopDocument}

\* Documents that were not written by saveFile.  A connection to a block
\* id that no block has, before a sound connection:
UnknownBlockDocument ==
    [blocks |-> <<BlockEntry(1, U(100), U(100)), BlockEntry(2, U(400), U(100))>>,
     clusters |-> <<>>,
     connections |-> <<ConnectionEntry(1, "right", 3, "left"),
                       ConnectionEntry(1, "bottom", 2, "top")>>]

\* an end anchor that no block has, before a sound connection:
UnknownEndAnchorDocument ==
    [blocks |-> <<BlockEntry(1, U(100), U(100)), BlockEntry(2, U(400), U(100))>>,
     clusters |-> <<>>,
     connections |-> <<ConnectionEntry(1, "right", 2, "centre"),
                       ConnectionEntry(1, "bottom", 2, "top")>>]

\* a start anchor that no block has, before a sound connection:
UnknownStartAnchorDocument ==
    [blocks |-> <<BlockEntry(1, U(100), U(100)), BlockEntry(2, U(400), U(100))>>,
     clusters |-> <<>>,
     connections |-> <<ConnectionEntry(1, "centre", 2, "left"),
                       ConnectionEntry(1, "bottom", 2, "top")>>]

\* a second block without a title:
MissingTitleDocument ==
    [blocks |-> <<BlockEntry(1, U(100), U(100)),
                  [id |-> 2, x |-> U(400), y |-> U(100),
                   width |-> U(150), height |-> U(80)]>>,
     clusters |-> <<>>,
     connections |-> <<ConnectionEntry(1, "right", 2, "left")>>]

DamagedDocuments ==
    <<UnknownBlockDocument, UnknownEndAnchorDocument, UnknownStartAnchorDocument,
      MissingTitleDocument>>

---------------------------------------------------------------------------
(* The state machine.                                                      *)

VARIABLES
    block_id_counter,    \* GraphEditor.block_id_counter
    cluster_id_counter,  \* GraphEditor.cluster_id_counter
    blocks,              \* GraphEditor.blocks: block_id -> GraphBlock
    clusters,            \* GraphEditor.clusters: cluster_id -> GraphCluster
    connections,         \* GraphEditor.connections
    currentBlock,        \* GraphEditor.currentBlock
    currentCluster,      \* GraphEditor.currentCluster
    editLocked,          \* GraphEditor.editLocked
    current_connection,  \* GraphEditor.current_connection
    graphBlock,          \* the GraphBlock objects, by handle
    graphCluster,        \* the GraphCluster objects, by handle
    file,                \* the files on disk besides Documents: the one
                         \* saveFile wrote last, if any
    steps,               \* the number of handler calls so far
    limit,               \* the number of handler calls explored
    tracking,            \* whether the history variables below are kept
    lastOp,              \* history: the handler that ran last and its input
    prev,                \* history: the editor state before that handler
    retired,             \* history: block ids removed from the registry
    retiredDoc           \* history: the same, since the last newFile/openFile

vars ==
    <<block_id_counter, cluster_id_counter, blocks, clusters, connections,
      currentBlock, currentCluster, editLocked, current_connection,
      graphBlock, graphCluster, file, steps, limit, tracking, lastOp, prev, retired, retiredDoc>>

State ==
    [block_id_counter |-> block_id_counter,
     cluster_id_counter |-> cluster_id_counter,
     blocks |-> blocks,
     clusters |-> clusters,
     connections |-> connections,
     currentBlock |-> currentBlock,
     currentCluster |-> currentCluster,
     editLocked |-> editLocked,
     current_connection |-> current_connection,
     graphBlock |-> graphBlock,
     graphCluster |-> graphCluster]

NoOp == [op |-> "init", args |-> <<>>]

\* The handler op, given args, takes the editor from State to s.
Step(s, op, args, newDocument) ==
    LET t == Collect(s)
        gone == IF newDocument THEN DictKeys(blocks)
                ELSE DictKeys(blocks) \ DictKeys(t.blocks)
    IN  /\ steps < limit
        /\ steps' = steps + 1
        /\ limit' = limit
        /\ block_id_counter' = t.block_id_counter
        /\ cluster_id_counter' = t.cluster_id_counter
        /\ blocks' = t.blocks
        /\ clusters' = t.clusters
        /\ connections' = t.connections
        /\ currentBlock' = t.currentBlock
        /\ currentCluster' = t.currentCluster
        /\ editLocked' = t.editLocked
        /\ current_connection' = t.current_connection
        /\ graphBlock' = t.graphBlock
        /\ graphCluster' = t.graphCluster
        /\ tracking' = tracking
        /\ lastOp' = IF tracking THEN [op |-> op, args |-> args] ELSE lastOp
        /\ prev' = IF tracking THEN State ELSE prev
        /\ retired' = IF tracking THEN retired \cup gone ELSE retired
        /\ retiredDoc' = IF ~tracking THEN retiredDoc
                         ELSE IF newDocument THEN {}
                         ELSE retiredDoc \cup gone

InitEditor ==
    /\ block_id_counter = InitialState.block_id_counter
    /\ cluster_id_counter = InitialState.cluster_id_counter
    /\ blocks = InitialState.blocks
    /\ clusters = InitialState.clusters
    /\ connections = InitialState.connections
    /\ currentBlock = InitialState.currentBlock
    /\ currentCluster = InitialState.currentCluster
    /\ editLocked = InitialState.editLocked
    /\ current_connection = InitialState.current_connection
    /\ graphBlock = InitialState.graphBlock
    /\ graphCluster = InitialState.graphCluster
    /\ steps = 0
    /\ lastOp = NoOp
    /\ prev = InitialState
    /\ retired = {}
    /\ retiredDoc = {}


\* The anchors the pointer is pressed and released on.
PressOrientations == {"right", "bottom"}
ReleaseOrientations == {"left"}

LiveBlockCount == Cardinality(BlockObjs \ FreeBlockObjs(State))

SceneItems ==
    {BlockItem(h) : h \in SceneBlocks(State)}
        \cup {ClusterItem(c) : c \in SceneClusters(State)}

\* A drag moves an item by MoveStep, at most MaxMoves steps from where
\* items start.
Reachable(x, starts) == \E x0 \in starts, k \in 1 .. MaxMoves : x = x0 + k * MoveStep[1]

StartXs == {p[1] : p \in StartPositions}

addBlock ==
    /\ block_id_counter <= MaxBlockId
    /\ LiveBlockCount < MaxBlockObjs
    /\ \E p \in StartPositions : Step(AddBlock(State, p), "addBlock", <<p>>, FALSE)
    /\ UNCHANGED file

\* GraphBlock.mousePressEvent
blockMousePress ==
    /\ \E h \in SceneBlocks(State) :
          Step(SetCurrentBlock(State, h), "setCurrentBlock", <<h>>, FALSE)
    /\ UNCHANGED file

\* GraphCluster.mousePressEvent
clusterMousePress ==
    /\ \E c \in SceneClusters(State) :
          Step(SetCurrentCluster(State, c), "setCurrentCluster", <<c>>, FALSE)
    /\ UNCHANGED file

onLockToggled ==
    /\ \E locked \in BOOLEAN :
          Step(OnLockToggled(State, locked), "onLockToggled", <<locked>>, FALSE)
    /\ UNCHANGED file

onEditDockVisibilityChanged ==
    /\ \E visible \in BOOLEAN :
          Step(OnEditDockVisibilityChanged(State, visible),
               "onEditDockVisibilityChanged", <<visible>>, FALSE)
    /\ UNCHANGED file

\* A drag of block h: setPos(pos + MoveStep) through itemChange.
moveBlock ==
    /\ \E h \in SceneBlocks(State) :
          LET p == PointAdd(graphBlock[h].pos, MoveStep)
          IN  /\ Reachable(p[1], StartXs)
              /\ Step(BlockSetPos(State, h, p), "moveBlock", <<h, MoveStep>>, FALSE)
    /\ UNCHANGED file

\* A drag of cluster c.
moveCluster ==
    /\ \E c \in SceneClusters(State) :
          LET p == PointAdd(graphCluster[c].pos, MoveStep)
          IN  /\ Reachable(p[1], {0})
              /\ Step(ClusterSetPos(State, c, p), "moveCluster", <<c, MoveStep>>, FALSE)
    /\ UNCHANGED file

fixCurrent ==
    /\ Step(FixCurrent(State), "fixCurrent", <<>>, FALSE)
    /\ UNCHANGED file

unfixCurrent ==
    /\ Step(UnfixCurrent(State), "unfixCurrent", <<>>, FALSE)
    /\ UNCHANGED file

deleteSelected ==
    /\ \E items \in Arrangements(SceneItems, MaxDeleted) :
          Step(DeleteSelected(State, items), "deleteSelected", <<items>>, FALSE)
    /\ UNCHANGED file

groupSelectedBlocks ==
    /\ \E selected_blocks \in Arrangements(SceneBlocks(State), MaxSelected) :
          /\ Len(selected_blocks) >= 2 =>
                /\ cluster_id_counter <= MaxClusterId
                /\ FreeClusterObjs(State) # {}
          /\ Step(GroupSelectedBlocks(State, selected_blocks),
                  "groupSelectedBlocks", <<selected_blocks>>, FALSE)
    /\ UNCHANGED file

detachClusterBlocks ==
    /\ Step(DetachClusterBlocks(State), "detachClusterBlocks", <<>>, FALSE)
    /\ UNCHANGED file

attachClusterBlocks ==
    /\ Step(AttachClusterBlocks(State), "attachClusterBlocks", <<>>, FALSE)
    /\ UNCHANGED file

\* AnchorHandle.mousePressEvent
startConnection ==
    /\ \E h \in SceneBlocks(State), o \in PressOrientations :
          Step(StartConnection(State, h, o), "startConnection", <<h, o>>, FALSE)
    /\ UNCHANGED file

\* AnchorHandle.mouseReleaseEvent over another anchor
endConnection ==
    /\ Len(connections) < MaxConnections
    /\ \E h \in SceneBlocks(State), o \in ReleaseOrientations :
          Step(EndConnection(State, h, o), "endConnection", <<h, o>>, FALSE)
    /\ UNCHANGED file

\* A release over no anchor.
cancelConnection ==
    /\ Step(CancelConnection(State), "cancelConnection", <<>>, FALSE)
    /\ UNCHANGED file

\* ClickableLine.mousePressEvent
lineMousePress ==
    /\ \E i \in DOMAIN connections :
          Step(RemoveConnection(State, i), "removeConnection", <<i>>, FALSE)
    /\ UNCHANGED file

newFile ==
    /\ Step(NewFile(State), "newFile", <<>>, TRUE)
    /\ UNCHANGED file

\* openFile: the dialog returns one of the documents on disk, or nothing.
openFile ==
    /\ \/ \E data \in Documents \cup Range(file) :
             /\ Len(data.blocks) <= MaxBlockObjs
             /\ Len(data.clusters) <= MaxClusterObjs
             /\ Len(data.connections) <= MaxConnections
             /\ Step(OpenFile(State, data), "openFile", <<data>>, TRUE)
       \/ Step(State, "openFile", <<>>, FALSE)
    /\ UNCHANGED file

saveFile ==
    /\ Step(State, "saveFile", <<>>, FALSE)
    /\ file' = <<SaveFile(State)>>

\* saveEdit: the Save button, with the edit panel's texts as the user left
\* them.
EditTitles == {"Edited"}

EditContents == {"x^2"}

saveEdit ==
    /\ \E title \in EditTitles, content \in EditContents,
          widthText \in WidthTexts, heightText \in HeightTexts :
          Step(SaveEdit(State, title, content, widthText, heightText),
               "saveEdit", <<title, content, widthText, heightText>>, FALSE)
    /\ UNCHANGED file

Next ==
    \/ addBlock
    \/ blockMousePress
    \/ clusterMousePress
    \/ onLockToggled
    \/ onEditDockVisibilityChanged
    \/ moveBlock
    \/ moveCluster
    \/ fixCurrent
    \/ unfixCurrent
    \/ saveEdit
    \/ deleteSelected
    \/ groupSelectedBlocks
    \/ detachClusterBlocks
    \/ attachClusterBlocks
    \/ startConnection
    \/ endConnection
    \/ cancelConnection
    \/ lineMousePress
    \/ newFile
    \/ openFile
    \/ saveFile

\* Every handler, in runs of MaxSteps calls.
Init == InitEditor /\ limit = MaxSteps /\ tracking = FALSE /\ file = <<>>

Spec == Init /\ [][Next]_vars

InitTracked == InitEditor /\ limit = MaxSteps /\ tracking = TRUE /\ file = <<>>

SpecTracked == InitTracked /\ [][Next]_vars

\* The handlers that build, move and take apart clusters.
NextClusters ==
    \/ addBlock
    \/ openFile
    \/ clusterMousePress
    \/ groupSelectedBlocks
    \/ attachClusterBlocks
    \/ detachClusterBlocks
    \/ moveBlock
    \/ moveCluster
    \/ deleteSelected

InitClusters == InitEditor /\ limit = MaxClusterSteps /\ tracking = TRUE /\ file = <<>>

SpecClusters == InitClusters /\ [][NextClusters]_vars

\* The handlers that draw and remove connections.
NextConnections ==
    \/ addBlock
    \/ openFile
    \/ newFile
    \/ startConnection
    \/ endConnection
    \/ cancelConnection
    \/ lineMousePress
    \/ deleteSelected

InitConnections == InitEditor /\ limit = MaxConnectionSteps /\ tracking = TRUE /\ file = <<>>

SpecConnections == InitConnections /\ [][NextConnections]_vars

\* The handlers that create and retire block ids.
NextDocuments ==
    \/ addBlock
    \/ deleteSelected
    \/ newFile
    \/ openFile
    \/ saveFile

InitDocuments == InitEditor /\ limit = MaxDocumentSteps /\ tracking = TRUE /\ file = <<>>

SpecDocuments == InitDocuments /\ [][NextDocuments]_vars

\* The handlers that lock, unlock and move items.
NextLocks ==
    \/ addBlock
    \/ blockMousePress
    \/ clusterMousePress
    \/ groupSelectedBlocks
    \/ fixCurrent
    \/ unfixCurrent
    \/ moveBlock
    \/ moveCluster

InitLocks == InitEditor /\ limit = MaxLockSteps /\ tracking = TRUE /\ file = <<>>

SpecLocks == InitLocks /\ [][NextLocks]_vars

\* openFile on documents that saveFile did not write, after some editing.
NextLoading ==
    \/ addBlock
    \/ groupSelectedBlocks
    \/ startConnection
    \/ endConnection
    \/ openFile

InitLoading ==
    InitEditor /\ limit = MaxLoadSteps /\ tracking = TRUE /\ file = DamagedDocuments

SpecLoading == InitLoading /\ [][NextLoading]_vars

\* The handlers that choose the object the edit panel works on.
NextSelection ==
    \/ addBlock
    \/ groupSelectedBlocks
    \/ blockMousePress
    \/ clusterMousePress
    \/ onLockToggled
    \/ onEditDockVisibilityChanged
    \/ deleteSelected
    \/ newFile

InitSelection ==
    InitEditor /\ limit = MaxSelectionSteps /\ tracking = TRUE /\ file = <<>>

SpecSelection == InitSelection /\ [][NextSelection]_vars

\* The handlers that edit, move and regroup items that connections touch.
NextEditing ==
    \/ openFile
    \/ blockMousePress
    \/ clusterMousePress
    \/ groupSelectedBlocks
    \/ detachClusterBlocks
    \/ moveBlock
    \/ moveCluster
    \/ saveEdit

InitEditing == InitEditor /\ limit = MaxEditSteps /\ tracking = TRUE /\ file = <<>>

SpecEditing == InitEditing /\ [][NextEditing]_vars

---------------------------------------------------------------------------
(* Claims.                                                                 *)

RegisteredBlocks == Range(DictValues(blocks))

\* C1: every committed connection has its start block and its end block in
\* the block registry, whatever handlers ran before (as claimed).
C1_EndpointsRegistered ==
    \A i \in DOMAIN connections :
        /\ connections[i].start_block \in RegisteredBlocks
        /\ connections[i].end_block \in RegisteredBlocks

\* C2: no committed connection starts and ends on the same block, whether
\* drawn with endConnection or loaded by openFile (as claimed).
C2_NoSelfLoop ==
    \A i \in DOMAIN connections :
        connections[i].start_block # connections[i].end_block

\* The document saveFile writes after openFile has loaded data.
Reloaded(data) == SaveFile(OpenFile(State, data))

\* C3: loading the document saveFile writes, and saving again, gives the
\* same blocks, clusters and connections (as claimed).
C3_RoundTrip == Reloaded(SaveFile(State)) = SaveFile(State)

\* The member blocks of the cluster detachClusterBlocks just acted on that
\* were its child items and are still in the scene.
DetachedBlocks ==
    {h \in Range(prev.graphCluster[prev.currentCluster].blocks) \cap SceneBlocks(State) :
        prev.graphBlock[h].parent = prev.currentCluster}

\* C4: detachClusterBlocks leaves every former member at the scene position
\* it had before the call, empties the member list and sets the cluster's
\* rect to the empty rect, also for a cluster that has been moved (as
\* claimed).
C4_DetachKeepsScenePos ==
    (lastOp.op = "detachClusterBlocks" /\ prev.currentCluster # None) =>
        /\ \A h \in DetachedBlocks : ScenePos(State, h) = ScenePos(prev, h)
        /\ graphCluster[prev.currentCluster].blocks = <<>>
        /\ graphCluster[prev.currentCluster].rect = NullRect

\* The blocks the last handler gave a cluster as their new parent.
ReparentedBlocks ==
    {h \in SceneBlocks(State) \cap SceneBlocks(prev) :
        /\ graphBlock[h].parent # None
        /\ graphBlock[h].parent # prev.graphBlock[h].parent}

\* C5: a block that groupSelectedBlocks or attachClusterBlocks reparents
\* into a cluster is at the same scene position after the call as before
\* (as claimed).
C5_ReparentKeepsScenePos ==
    lastOp.op \in {"groupSelectedBlocks", "attachClusterBlocks"} =>
        \A h \in ReparentedBlocks : ScenePos(State, h) = ScenePos(prev, h)

\* C6: once openFile has loaded a document, the cluster id counter is
\* greater than every key of the cluster registry (as claimed).
C6_ClusterCounterAboveLoadedIds ==
    (lastOp.op = "openFile" /\ lastOp.args # <<>>) =>
        \A k \in DictKeys(clusters) : cluster_id_counter > k

\* The ids of the blocks the last handler constructed.
NewBlockIds ==
    {graphBlock[h].block_id : h \in SceneBlocks(State) \cap FreeBlockObjs(prev)}

\* C7 as claimed: addBlock never gives a new block an id that a block removed
\* earlier in the session had.
C7_NoReuseInSession ==
    lastOp.op = "addBlock" => NewBlockIds \cap retired = {}

\* C7 as amended: addBlock never gives a new block an id that a block removed
\* since the last newFile or openFile had.
C7_NoReuseInDocument ==
    lastOp.op = "addBlock" => NewBlockIds \cap retiredDoc = {}

C7_Witness ==
    lastOp.op = "addBlock" /\ NewBlockIds # {} /\ retiredDoc # {}

\* C8: the block id counter is greater than every id of the block registry,
\* and addBlock registers the new block under an id no block had, leaving
\* the other entries as they were.
C8_BlockCounterAboveRegistry ==
    /\ \A k \in DictKeys(blocks) : block_id_counter > k
    /\ lastOp.op = "addBlock" =>
          /\ ~DictHas(prev.blocks, prev.block_id_counter)
          /\ Len(blocks) = Len(prev.blocks) + 1
          /\ \A i \in DOMAIN prev.blocks : blocks[i] = prev.blocks[i]
          /\ blocks[Len(blocks)].id = prev.block_id_counter

C8_Witness ==
    lastOp.op = "addBlock" /\ Len(prev.blocks) >= 2 /\ Len(blocks) > Len(prev.blocks)

\* The blocks in the selection deleteSelected was just given.
DeletedBlocks ==
    {item.obj : item \in {it \in Range(lastOp.args[1]) : it.kind = "block"}}

\* C9: deleteSelected removes from the committed connections exactly those
\* that start or end on a selected block, and leaves the others as they
\* were, in the same order.
C9_DeleteRemovesTouching ==
    lastOp.op = "deleteSelected" =>
        connections =
            SelectSeq(prev.connections,
                      LAMBDA conn : /\ conn.start_block \notin DeletedBlocks
                                    /\ conn.end_block \notin DeletedBlocks)

C9_Witness ==
    /\ lastOp.op = "deleteSelected"
    /\ DeletedBlocks # {}
    /\ Len(prev.connections) = 3
    /\ Len(connections) = 1

\* endConnection was just called, while a connection was pending, with an
\* anchor of the block the pending connection starts on.
EndedOnStartBlock ==
    /\ lastOp.op = "endConnection"
    /\ prev.current_connection # NoConnection
    /\ lastOp.args[1] = prev.current_connection.start_block

\* C10: endConnection on the start anchor's own block leaves the committed
\* connections unchanged and no connection pending.
C10_SelfEndCancels ==
    EndedOnStartBlock =>
        /\ connections = prev.connections
        /\ current_connection = NoConnection

C10_Witness == EndedOnStartBlock /\ current_connection = NoConnection


\* startConnection was just called while a connection was pending.
StartedWhilePending ==
    /\ lastOp.op = "startConnection"
    /\ prev.current_connection # NoConnection

\* C11: startConnection while a connection is pending changes nothing: the
\* pending connection keeps its start anchor and the committed connections
\* are as they were.
C11_SecondStartIsNoOp ==
    StartedWhilePending =>
        /\ current_connection = prev.current_connection
        /\ connections = prev.connections
        /\ State = prev

C11_Witness ==
    /\ StartedWhilePending
    /\ <<lastOp.args[1], lastOp.args[2]>> #
           <<prev.current_connection.start_block, prev.current_connection.start_anchor>>
    /\ connections # <<>>


\* The block a drag was just tried on, and where the drag would take it.
MovedBlock == lastOp.args[1]

\* C12: a move of a locked block leaves its position as it was; a move of
\* an unlocked block by delta changes its position by delta; and right
\* after unfixCurrent on a block, a move of it by delta takes it to its
\* position plus delta.
C12_LockedBlockStays ==
    /\ lastOp.op = "moveBlock" =>
          /\ prev.graphBlock[MovedBlock].locked =>
                /\ graphBlock[MovedBlock].pos = prev.graphBlock[MovedBlock].pos
                /\ ScenePos(State, MovedBlock) = ScenePos(prev, MovedBlock)
          /\ ~prev.graphBlock[MovedBlock].locked =>
                /\ graphBlock[MovedBlock].pos =
                       PointAdd(prev.graphBlock[MovedBlock].pos, lastOp.args[2])
                /\ ScenePos(State, MovedBlock) =
                       PointAdd(ScenePos(prev, MovedBlock), lastOp.args[2])
    /\ (lastOp.op = "unfixCurrent" /\ prev.currentBlock # None) =>
          LET h == prev.currentBlock
              p == PointAdd(graphBlock[h].pos, MoveStep)
          IN  /\ ~graphBlock[h].locked
              /\ BlockSetPos(State, h, p).graphBlock[h].pos = p

\* unfixCurrent has just unlocked a block that was locked.
C12_Witness ==
    /\ lastOp.op = "unfixCurrent"
    /\ prev.currentBlock # None
    /\ prev.graphBlock[prev.currentBlock].locked
    /\ graphBlock[prev.currentBlock].state = "scene"


\* The blocks that are locked before and after the last handler.
LockedBlocks ==
    {h \in SceneBlocks(prev) \cap SceneBlocks(State) :
        prev.graphBlock[h].locked /\ graphBlock[h].locked}

\* C13: a move of a block or of a cluster leaves every locked block at the
\* scene position it had (as claimed).
C13_LockedBlockKeepsScenePos ==
    lastOp.op \in {"moveBlock", "moveCluster"} =>
        \A h \in LockedBlocks : ScenePos(State, h) = ScenePos(prev, h)


\* The cluster groupSelectedBlocks has just created.
NewCluster == DictGet(clusters, prev.cluster_id_counter)

\* From state s to state t, block h and its four anchors have shifted by
\* delta in scene coordinates.
ShiftedBy(s, t, h, delta) ==
    /\ ScenePos(t, h) = PointAdd(ScenePos(s, h), delta)
    /\ \A o \in Orientations :
          AnchorSceneCenter(t, h, o) = PointAdd(AnchorSceneCenter(s, h, o), delta)

\* The child blocks of the cluster a drag was just tried on.
DraggedChildren ==
    {h \in SceneBlocks(prev) : prev.graphBlock[h].parent = lastOp.args[1]}

C15_LoadedClusterParentsMembers ==
    (lastOp.op = "openFile" /\ lastOp.args # <<>>) =>
        \A c \in Range(DictValues(clusters)) :
            LET moved == ClusterSetPos(State, c, PointAdd(graphCluster[c].pos, MoveStep))
            IN  \A h \in Range(graphCluster[c].blocks) :
                    /\ graphBlock[h].parent = c
                    /\ ShiftedBy(State, moved, h, MoveStep)


\* The document openFile was just given.
LoadedData == lastOp.args[1]

\* The connection entry names two blocks of the document and two of the
\* four anchors.
Resolves(data, entry) ==
    /\ \E i \in DOMAIN data.blocks : data.blocks[i].id = entry.start_block_id
    /\ \E i \in DOMAIN data.blocks : data.blocks[i].id = entry.end_block_id
    /\ entry.start_anchor \in Orientations
    /\ entry.end_anchor \in Orientations

\* The connection entries of the document that resolve, in order.
ResolvedEntries(data) ==
    SelectSeq(data.connections, LAMBDA entry : Resolves(data, entry))

\* Every entry of the document has the keys openFile subscripts.
Complete(data) ==
    /\ ~BlocksRaise(data.blocks, 1)
    /\ \A i \in DOMAIN data.connections :
          DOMAIN data.connections[i] =
              {"start_block_id", "end_block_id", "start_anchor", "end_anchor"}

\* C16: openFile skips a connection entry with an unknown block id or an
\* unknown anchor and goes on: it raises no error, and the committed
\* connections are those of the entries that resolve, in order (as claimed).
C16_UnresolvedEntriesSkipped ==
    (lastOp.op = "openFile" /\ lastOp.args # <<>> /\ Complete(LoadedData)) =>
        /\ ~OpenFileRaises(prev, LoadedData)
        /\ Len(connections) = Len(ResolvedEntries(LoadedData))
        /\ \A i \in DOMAIN connections :
              /\ HasEnd(connections[i])
              /\ ConnectionData(State, connections[i]) = ResolvedEntries(LoadedData)[i]

\* C17: when openFile raises while it loads a document over another one, the
\* registries and the id counters are what they were before the call (as
\* claimed).
C17_FailedLoadChangesNothing ==
    (/\ lastOp.op = "openFile" /\ lastOp.args # <<>>
     /\ OpenFileRaises(prev, LoadedData)
     /\ prev.blocks # <<>>) =>
        /\ blocks = prev.blocks
        /\ clusters = prev.clusters
        /\ connections = prev.connections
        /\ block_id_counter = prev.block_id_counter
        /\ cluster_id_counter = prev.cluster_id_counter


C19_EditLockFreezesCurrent ==
    (prev.editLocked /\ editLocked) =>
        /\ currentBlock = prev.currentBlock
        /\ currentCluster = prev.currentCluster

\* C20 as claimed: after addBlock the new block is registered under the
\* next block id, currentBlock is the new block and currentCluster is unset.
C20_AddBlockSelectsNewBlock ==
    lastOp.op = "addBlock" =>
        /\ DictHas(blocks, prev.block_id_counter)
        /\ ~DictHas(prev.blocks, prev.block_id_counter)
        /\ DictGet(blocks, prev.block_id_counter) \in FreeBlockObjs(prev)
        /\ currentBlock = DictGet(blocks, prev.block_id_counter)
        /\ currentCluster = None

\* C20 as amended: after addBlock the new block is registered under the
\* next block id; with the edit lock off currentBlock is the new block and
\* currentCluster is unset, with the edit lock on both are as they were.
C20_AddBlockSelectsUnlessLocked ==
    lastOp.op = "addBlock" =>
        /\ DictHas(blocks, prev.block_id_counter)
        /\ ~DictHas(prev.blocks, prev.block_id_counter)
        /\ DictGet(blocks, prev.block_id_counter) \in FreeBlockObjs(prev)
        /\ graphBlock[DictGet(blocks, prev.block_id_counter)].block_id =
               prev.block_id_counter
        /\ IF prev.editLocked
           THEN currentBlock = prev.currentBlock /\ currentCluster = prev.currentCluster
           ELSE /\ currentBlock = DictGet(blocks, prev.block_id_counter)
                /\ currentCluster = None

\* addBlock with the edit lock off while a cluster was current.
C20_Witness ==
    /\ lastOp.op = "addBlock"
    /\ ~prev.editLocked
    /\ prev.currentCluster # None
    /\ currentBlock = DictGet(blocks, prev.block_id_counter)


\* groupSelectedBlocks was just called with fewer than two blocks selected.
GroupedTooFew ==
    lastOp.op = "groupSelectedBlocks" /\ Len(lastOp.args[1]) < 2

\* C21: groupSelectedBlocks with fewer than two blocks selected changes
\* nothing: the cluster registry, the cluster id counter and every block's
\* parent and position are as they were.
C21_GroupOfFewerThanTwoIsNoOp ==
    GroupedTooFew =>
        /\ clusters = prev.clusters
        /\ cluster_id_counter = prev.cluster_id_counter
        /\ \A h \in BlockObjs :
              /\ graphBlock[h].parent = prev.graphBlock[h].parent
              /\ graphBlock[h].pos = prev.graphBlock[h].pos
        /\ State = prev

\* One block of several was selected.
C21_Witness ==
    /\ GroupedTooFew
    /\ Len(lastOp.args[1]) = 1
    /\ Len(blocks) >= 2


\* The segment between the centres of the two anchors of a committed
\* connection, in the current state.
AnchorSegment(conn) ==
    <<AnchorSceneCenter(State, conn.start_block, conn.start_anchor),
      AnchorSceneCenter(State, conn.end_block, conn.end_anchor)>>

\* C22: after every handler, the line stored for each committed connection
\* runs from the current scene centre of its start anchor to the current
\* scene centre of its end anchor (as claimed).
C22_LinesFollowAnchors ==
    \A i \in DOMAIN connections :
        HasEnd(connections[i]) => connections[i].line = AnchorSegment(connections[i])


\* The last handler was saveEdit on a block, with a width or height text
\* that is a number and not a positive one.
SavedNonPositiveSize ==
    /\ lastOp.op = "saveEdit"
    /\ prev.currentBlock # None
    /\ ParseFloat(lastOp.args[3]) # <<>> /\ ParseFloat(lastOp.args[4]) # <<>>
    /\ ParseFloat(lastOp.args[3])[1] <= 0 \/ ParseFloat(lastOp.args[4])[1] <= 0

\* C23: every registered block has a width and a height above zero, and a
\* saveEdit with a width or height that is zero or negative leaves the size
\* of the block as it was (as claimed).
C23_BlockSizePositive ==
    /\ \A i \in DOMAIN blocks :
          graphBlock[blocks[i].obj].width > 0 /\ graphBlock[blocks[i].obj].height > 0
    /\ SavedNonPositiveSize =>
          /\ graphBlock[prev.currentBlock].width = prev.graphBlock[prev.currentBlock].width
          /\ graphBlock[prev.currentBlock].height = prev.graphBlock[prev.currentBlock].height


\* The last handler was saveEdit on a cluster, with numbers in both size
\* fields.
SavedClusterSize ==
    /\ lastOp.op = "saveEdit"
    /\ prev.currentBlock = None /\ prev.currentCluster # None
    /\ ParseFloat(lastOp.args[3]) # <<>> /\ ParseFloat(lastOp.args[4]) # <<>>

\* C24: saveEdit on the current cluster with a numeric width and height
\* leaves the cluster's rect at its origin with that width and height, and
\* leaves the position of every member block in the cluster as it was (as
\* claimed).
C24_SaveEditResizesCluster ==
    SavedClusterSize =>
        LET c == prev.currentCluster
            old == prev.graphCluster[c].rect
        IN  /\ graphCluster[c].rect = Rect(old.x, old.y, ParseFloat(lastOp.args[3])[1],
                                           ParseFloat(lastOp.args[4])[1])
            /\ \A i \in DOMAIN prev.graphCluster[c].blocks :
                  graphBlock[prev.graphCluster[c].blocks[i]].pos
                      = prev.graphBlock[prev.graphCluster[c].blocks[i]].pos


\* The last handler was a pointer release while a connection was pending:
\* over an anchor (endConnection) or over none (cancelConnection).
ReleasedWhilePending ==
    /\ lastOp.op \in {"endConnection", "cancelConnection"}
    /\ prev.current_connection # NoConnection

\* The release was over an anchor of a block other than the start block.
ReleasedOnOtherBlock ==
    /\ lastOp.op = "endConnection"
    /\ lastOp.args[1] # prev.current_connection.start_block

\* C25: a pointer release while a connection is pending leaves no pending
\* connection; over an anchor of another block the connection is appended
\* to the committed connections with that anchor as its end, otherwise the
\* committed connections are what they were (as claimed).
C25_ReleaseEndsPending ==
    ReleasedWhilePending =>
        /\ current_connection = NoConnection
        /\ IF ReleasedOnOtherBlock
           THEN /\ Len(connections) = Len(prev.connections) + 1
                /\ SubSeq(connections, 1, Len(prev.connections)) = prev.connections
                /\ LET conn == connections[Len(connections)]
                   IN  /\ conn.start_block = prev.current_connection.start_block
                       /\ conn.start_anchor = prev.current_connection.start_anchor
                       /\ conn.end_block = lastOp.args[1]
                       /\ conn.end_anchor = lastOp.args[2]
           ELSE connections = prev.connections


\* The registered clusters whose member list holds block h.
ListingClusters(h) ==
    {c \in Range(DictValues(clusters)) : h \in Range(graphCluster[c].blocks)}

\* C26: for every registered block, at most one registered cluster lists
\* it as a member, and a registered cluster lists it exactly when that
\* cluster is the block's parent item (as claimed).
C26_MembershipMatchesParent ==
    \A h \in RegisteredBlocks :
        /\ Cardinality(ListingClusters(h)) <= 1
        /\ \A c \in Range(DictValues(clusters)) :
              c \in ListingClusters(h) <=> graphBlock[h].parent = c


\* C27: currentBlock, when set, is a block of the block registry, and
\* currentCluster, when set, is a cluster of the cluster registry (as
\* claimed).
C27_CurrentObjectRegistered ==
    /\ currentBlock # None => currentBlock \in RegisteredBlocks
    /\ currentCluster # None => currentCluster \in Range(DictValues(clusters))


\* The block ids saveFile writes in the blocks list of state s.
SavedBlockIds(s) == {SaveFile(s).blocks[i].id : i \in DOMAIN SaveFile(s).blocks}

\* C28: every block in the member list of a registered cluster is in the
\* block registry, and every id in a block_ids list that saveFile writes is
\* the id of a block in the blocks list it writes (as claimed).
C28_MembersRegistered ==
    /\ \A c \in Range(DictValues(clusters)) :
          Range(graphCluster[c].blocks) \subseteq RegisteredBlocks
    /\ \A i \in DOMAIN SaveFile(State).clusters :
          Range(SaveFile(State).clusters[i].block_ids) \subseteq SavedBlockIds(State)


\* The last handler cleared the document: newFile, or an openFile that
\* read a document and did not raise.
DocumentCleared ==
    \/ lastOp.op = "newFile"
    \/ /\ lastOp.op = "openFile"
       /\ lastOp.args # <<>>
       /\ ~OpenFileRaises(prev, lastOp.args[1])

\* C29: after newFile and after an openFile that succeeds no connection is
\* pending, and no committed connection ever starts on a block that
\* scene.clear() destroyed with an earlier document (as claimed).
C29_ClearedDocumentIsIdle ==
    /\ DocumentCleared => current_connection = NoConnection
    /\ \A i \in DOMAIN connections :
          graphBlock[connections[i].start_block].state # "destroyed"

====
